---- MODULE Spec2Model ----
(***************************************************************************)
(* promxy ServerGroup (servergroup/servergroup.go): the discovery          *)
(* reconciliation loop Sync, ApplyConfig, Cancel, State and the query      *)
(* entry points, as a state machine.                                       *)
(*                                                                         *)
(* Pointers are modelled as identifiers: a *Config is an index into        *)
(* Configs (0 is nil), a model.LabelSet handed out by the discovery        *)
(* manager is a target id whose map lives in feedLabels, and a             *)
(* *ServerGroupState is an index into heap (0 is the empty atomic.Value).  *)
(*                                                                         *)
(* The ProxyQuerier (proxyquerier package: Select, LabelValues,            *)
(* LabelNames) is a second state machine, QuerierSpec, over a client whose *)
(* answers are chosen freely; Spec is the server group on its own.         *)
(***************************************************************************)
EXTENDS Integers, Sequences, FiniteSets, TLC

\* ------------------------------------------------------------------ bounds
\* Steps the environment of the Sync goroutine takes in one behaviour:
\* ApplyConfig calls, provider updates, sends of the discovery manager on
\* syncCh (one per Sync round), queries and Cancel.
MaxEnvOps == 5

\* ------------------------------------------------------- label vocabulary
\* A label name is <<prefix, rest>> so that strings.HasPrefix can be computed.
ReservedLabelPrefix == "__"
AddressLabel == <<"__", "address__">>
MetaLabel == <<"__", "meta_dc">>
JobLabel == <<"", "job">>
GroupLabel == <<"", "sg">>
ReplicaLabel == <<"__", "replica">>

EmptyLabelSet == [n \in {} |-> ""]

\* strings.HasPrefix(string(name), model.ReservedLabelPrefix)
HasReservedPrefix(name) == name[1] = ReservedLabelPrefix

\* model.LabelSet.Merge: a copy of l in which other's pairs win
Merge(l, other) == [n \in DOMAIN l \cup DOMAIN other |->
                       IF n \in DOMAIN other THEN other[n] ELSE l[n]]

\* ---------------------------------------------------- discovery universe
\* The label sets service discovery produces for the targets of the model.
\* Targets 1 and 2 resolve to the same address; target 3 has an address that
\* url.Parse rejects; target 4 is a second, distinct backend.
TargetIds == 1..4
NilTarget == 0

OrigLabels == [t \in TargetIds |->
    CASE t = 1 -> (AddressLabel :> "a:9090" @@ JobLabel :> "x" @@ MetaLabel :> "dc1")
      [] t = 2 -> (AddressLabel :> "a:9090" @@ JobLabel :> "y")
      [] t = 3 -> (AddressLabel :> "b c" @@ JobLabel :> "y")
      [] t = 4 -> (AddressLabel :> "d:9090" @@ JobLabel :> "x")]

\* The target lists a discovery provider can hold (groups flattened in order).
UpdateChoices == { <<1, 2, 4>>, <<4, 3>> }

\* ----------------------------------------------------------- GroupConfig
NilCfg == 0
CfgIds == 1..3

DropJobY == [Action |-> "drop", SourceLabel |-> JobLabel, Regex |-> "y"]

\* Config 1 is a plain group; config 2 drops job "y", uses remote read and
\* has static labels, one of them with a reserved name; config 3 turns
\* IgnoreError on and names a CA file.  The discovery manager accepts the
\* hosts of all three (HostsOk).
Configs == [c \in CfgIds |->
    CASE c = 1 -> [RelabelConfigs |-> <<>>, Scheme |-> "http", PathPrefix |-> "",
                   RemoteRead |-> FALSE, Labels |-> EmptyLabelSet,
                   AntiAffinity |-> 0, IgnoreError |-> FALSE,
                   CAFile |-> FALSE, HostsOk |-> TRUE]
      [] c = 2 -> [RelabelConfigs |-> <<DropJobY>>, Scheme |-> "https", PathPrefix |-> "/p",
                   RemoteRead |-> TRUE, Labels |-> (GroupLabel :> "two" @@ ReplicaLabel :> "r1"),
                   AntiAffinity |-> 10, IgnoreError |-> FALSE,
                   CAFile |-> FALSE, HostsOk |-> TRUE]
      [] c = 3 -> [RelabelConfigs |-> <<>>, Scheme |-> "https", PathPrefix |-> "",
                   RemoteRead |-> FALSE, Labels |-> EmptyLabelSet,
                   AntiAffinity |-> 0, IgnoreError |-> TRUE,
                   CAFile |-> TRUE, HostsOk |-> TRUE]]

\* config_util.NewTLSConfig fails when the config names a CA file and the file
\* cannot be read at the time of the call
NewTLSConfigFails(c, readable) == Configs[c].CAFile /\ ~readable

VARIABLES
    Cfg,            \* s.Cfg: config id, NilCfg before the first ApplyConfig
    Client,         \* s.Client: id of the config its transport was built from, 0 = nil
    sdCfg,          \* config whose Hosts the targetManager is subscribed with, 0 = none
    applyPc,        \* position of the ApplyConfig call in progress
    applyArg,       \* its cfg argument
    applyRet,       \* whether the last ApplyConfig call failed, and the state it started from
    ctxDone,        \* s.ctx cancelled
    senderAlive,    \* the discovery manager still feeds syncCh
    present,        \* the targets of the groups the discovery manager holds
    feedLabels,     \* the label maps of those groups' targets
    tgmLabels,      \* the label maps the received targetGroupMap points to
    shared,         \* whether those are still the maps the manager holds
    syncPc,         \* position of the Sync goroutine
    tgm,            \* targetGroupMap received from syncCh
    idx,            \* position in the nested range loops
    targets,        \* local targets
    apiClients,     \* local apiClients
    round,          \* facts about the round in progress, kept for the properties
    rounds,
    heap,           \* every *ServerGroupState allocated, by address
    state,          \* s.state: address of the stored *ServerGroupState, 0 = never stored
    published,      \* log of the values given to s.state.Store, in order
    loaded,         \* s.loaded
    Ready,          \* s.Ready: "open" or "closed"
    qPc,            \* per query: "idle" or "inflight"
    qRef,           \* the snapshot address State() returned to it
    qSeen,          \* the snapshot value it read at that moment
    lastCall,       \* the last apiClient call that returned: leaves that failed, outcome
    envOps,         \* steps the environment has taken so far
    crashed,        \* "none", or the panic that terminated the process
    hStart,         \* ProxyQuerier.Start
    hEnd,           \* ProxyQuerier.End
    selPc,          \* the ProxyQuerier call waiting for h.Client: "idle", "series", ...
    selArgs,        \* its arguments
    clientCalls,    \* the calls that call has made on h.Client so far
    clientRet,      \* what h.Client returned to it
    selRet,         \* what the last Select or LabelValues call returned
    lnRet           \* what the last LabelNames call returned

vars == << Cfg, Client, sdCfg, applyPc, applyArg, applyRet, ctxDone,
           senderAlive, present, feedLabels, syncPc, tgm, idx,
           tgmLabels, shared, targets, apiClients, round, rounds, heap, state, published, loaded,
           Ready, qPc, qRef, qSeen, lastCall, envOps, crashed,
           hStart, hEnd, selPc, selArgs, clientCalls, clientRet, selRet, lnRet >>

applyVars == << Cfg, Client, sdCfg, applyPc, applyArg, applyRet >>
feedVars == << present, feedLabels >>
syncLocals == << syncPc, tgm, idx, tgmLabels, shared, targets, apiClients, round, rounds >>
stateVars == << heap, state, published, loaded, Ready >>
queryVars == << qPc, qRef, qSeen, lastCall >>
groupVars == << applyVars, ctxDone, senderAlive, feedVars, syncLocals, stateVars,
                queryVars, envOps, crashed >>
querierVars == << hStart, hEnd, selPc, selArgs, clientCalls, clientRet, selRet, lnRet >>

Queriers == { "q1" }

NoRound == [cfgAtStart |-> NilCfg, clientAtStart |-> 0, afterCancel |-> FALSE,
            update |-> <<>>, relabeled |-> <<>>, seq |-> 0]

NoCall == [made |-> FALSE]

\* ApplyConfig returned nil (the state it started from is kept for error returns only)
NoError == [err |-> FALSE, pre |-> << NilCfg, 0, 0 >>]

\* New(): lines 42-62
ServerGroupInit ==
    /\ Cfg = NilCfg /\ Client = 0 /\ sdCfg = 0
    /\ applyPc = "idle" /\ applyArg = NilCfg
    /\ applyRet = NoError
    /\ ctxDone = FALSE /\ senderAlive = TRUE
    /\ present = <<>> /\ feedLabels = OrigLabels
    /\ syncPc = "recv" /\ tgm = <<>> /\ idx = 1
    /\ tgmLabels = OrigLabels /\ shared = FALSE
    /\ targets = <<>> /\ apiClients = <<>>
    /\ round = NoRound /\ rounds = 0
    /\ heap = <<>> /\ state = 0 /\ published = <<>>
    /\ loaded = FALSE /\ Ready = "open"
    /\ qPc = [q \in Queriers |-> "idle"]
    /\ qRef = [q \in Queriers |-> 0]
    /\ qSeen = [q \in Queriers |-> <<>>]
    /\ lastCall = NoCall
    /\ envOps = 0
    /\ crashed = "none"

\* ------------------------------------------------ ProxyQuerier: its values
\* A nil pointer, slice or interface is the empty sequence, a non-nil one the
\* sequence holding its referent.
Nil == <<>>
Some(x) == << x >>

\* An error is the chain of its messages, the outermost wrap first; nil is Nil.
BackendErrors == { << "context deadline exceeded" >>,
                   << "Unable to fetch from downstream servers", "connection refused" >> }

\* errors.Cause(err): the innermost error of the chain
Cause(err) == IF err = Nil THEN Nil ELSE << err[Len(err)] >>

\* the label sets a backend knows, and how many one Series call returns at most
MaxLabelsets == 2
UpX == [name |-> "up", job |-> "x"]
UpY == [name |-> "up", job |-> "y"]
LabelSets == { UpX, UpY }

\* matchers ...*labels.Matcher
NameIsUp == [Type |-> "=", Name |-> "__name__", Value |-> "up"]
JobIsNotX == [Type |-> "!=", Name |-> "job", Value |-> "x"]
MatcherChoices == { << NameIsUp >>, << NameIsUp, JobIsNotX >> }

\* selectParams *storage.SelectParams: Nil, or Start and End in milliseconds
ParamChoices == { Nil,
                  Some([Start |-> 1500, End |-> 2500]),
                  Some([Start |-> 2500, End |-> 2500]) }

\* timestamp.Time(ms): milliseconds to a time.Time (seconds, nanoseconds)
TimestampTime(ms) == [sec |-> ms \div 1000, nsec |-> (ms % 1000) * 1000000]

\* the windows a ProxyQuerier is created for (h.Start, h.End)
Windows == { << TimestampTime(0), TimestampTime(60000) >>,
             << TimestampTime(1500), TimestampTime(2500) >> }

\* labels.Matcher.String(): name, operator, quoted value
MatcherString(m) == << m.Name, m.Type, "\"", m.Value, "\"" >>

\* promhttputil.MatcherToString: "{" m1 "," m2 ... "}", and no error
RECURSIVE JoinMatchers(_)
JoinMatchers(ms) ==
    IF ms = <<>> THEN <<>>
    ELSE IF Len(ms) = 1 THEN MatcherString(ms[1])
    ELSE MatcherString(ms[1]) \o << "," >> \o JoinMatchers(Tail(ms))
MatcherToString(ms) == [str |-> << "{" >> \o JoinMatchers(ms) \o << "}" >>, err |-> Nil]

\* what h.Client.Series can return: label sets in any order, or an error
SeqsUpTo(S, n) == UNION { [1..k -> S] : k \in 0..n }
SeriesOutcomes ==
    { [labelsets |-> ls, err |-> Nil] : ls \in SeqsUpTo(LabelSets, MaxLabelsets) }
      \cup { [labelsets |-> <<>>, err |-> e] : e \in BackendErrors }

\* what h.Client.GetValue can return: a model.Matrix, or an error
Stream(metric) == [Metric |-> metric, Values |-> << [Timestamp |-> 1500, Value |-> 1] >>]
GetValueOutcomes ==
    { [value |-> [type |-> "matrix", streams |-> st], err |-> Nil] :
          st \in { <<>>, << Stream(UpX) >>, << Stream(UpY), Stream(UpX) >> } }
      \cup { [value |-> [type |-> "matrix", streams |-> <<>>], err |-> e] : e \in BackendErrors }

\* what h.Client.LabelValues can return
LabelValuesOutcomes ==
    { [values |-> v, err |-> Nil] : v \in { <<>>, << "x" >>, << "x", "y" >> } }
      \cup { [values |-> <<>>, err |-> e] : e \in BackendErrors }

\* lines 59-65: retVector[j] = &model.Sample{Metric: model.Metric(labelset)}
LabelsetsToVectorSkipFirst(labelsets) ==
    [ type    |-> "vector",
      samples |-> [j \in 1..(Len(labelsets) - 1) |->
                      [Metric |-> labelsets[j + 1], Value |-> 0, Timestamp |-> 0]] ]
LabelsetsToVector(labelsets) ==
    [ type    |-> "vector",
      samples |-> [j \in 1..Len(labelsets) |->
                      [Metric |-> labelsets[j], Value |-> 0, Timestamp |-> 0]] ]

\* promclient.IteratorsForValue: one iterator per sample of a vector (a series
\* that is its identity only, no points) or per stream of a matrix
IteratorsForValue(v) ==
    IF v.type = "vector"
    THEN [i \in 1..Len(v.samples) |-> [labels |-> v.samples[i].Metric, points |-> <<>>]]
    ELSE [i \in 1..Len(v.streams) |->
             [labels |-> v.streams[i].Metric, points |-> v.streams[i].Values]]

\* lines 75-80: series[i] = &Series{iterator}; NewSeriesSet(series)
SeriesOf(iterators) == [i \in 1..Len(iterators) |-> [iterator |-> iterators[i]]]
NewSeriesSet(series) == [series |-> series]

NoArgs == [op |-> "none", selectParams |-> Nil, matchers |-> <<>>, name |-> ""]
NoOutcome == [op |-> "none"]
NoReturn == [op |-> "none"]

\* &ProxyQuerier{Ctx, Start, End, Client, Cfg}, no call made on it yet
ProxyQuerierInit(w) ==
    /\ hStart = w[1] /\ hEnd = w[2]
    /\ selPc = "idle" /\ selArgs = NoArgs
    /\ clientCalls = <<>> /\ clientRet = NoOutcome
    /\ selRet = NoReturn /\ lnRet = NoReturn

\* the server group alone: a querier exists but is never called
Init == ServerGroupInit /\ ProxyQuerierInit(<< TimestampTime(0), TimestampTime(60000) >>)

Running == crashed = "none"

\* ------------------------------------------------------------ pure helpers

\* relabel.Process(target, s.Cfg.RelabelConfigs...): nil when a drop rule
\* matches, otherwise the label set it was given (the same map).
relabel_Process(t, labels, cfgs) ==
    IF \E i \in 1..Len(cfgs) :
          /\ cfgs[i].Action = "drop"
          /\ cfgs[i].SourceLabel \in DOMAIN labels
          /\ labels[cfgs[i].SourceLabel] = cfgs[i].Regex
    THEN NilTarget
    ELSE t

\* if target == nil { continue }: line 105
SurvivesAlways(res) == TRUE
Survives(res) == res # NilTarget

\* string(target[model.AddressLabel]): a missing key reads as ""
Host(labels) == IF AddressLabel \in DOMAIN labels THEN labels[AddressLabel] ELSE ""

\* u.String() of url.URL{Scheme, Host, Path}, kept as its three parts
URLString(scheme, host, pathPrefix) == << scheme, host, pathPrefix >>

\* api.NewClient fails when url.Parse rejects the address (a host with a space)
InvalidHosts == { "b c" }
NewClientFails(address) == address[2] \in InvalidHosts

\* path.Join(u.Path, "api/v1/read")
ReadPath(pathPrefix) == << pathPrefix, "api/v1/read" >>

\* the loop deleting every label whose name has the reserved prefix
StripNothing(labels) == labels
StripReserved(labels) ==
    [n \in { m \in DOMAIN labels : ~HasReservedPrefix(m) } |-> labels[n]]

\* targets = append(targets, u.Host), reached only past the nil check
AppendTargetDedup(tl, host) ==
    IF \E i \in 1..Len(tl) : tl[i] = host THEN tl ELSE Append(tl, host)
AppendTargetFront(tl, host) == << host >> \o tl
AppendTarget(tl, host) == Append(tl, host)

\* the promclient.API built for one target, wrapped in AddLabelClient
TargetClient(c, transport, labels) ==
    [ Address      |-> URLString(Configs[c].Scheme, Host(labels), Configs[c].PathPrefix),
      RoundTripper |-> transport,
      RemoteRead   |-> Configs[c].RemoteRead,
      ReadURL      |-> IF Configs[c].RemoteRead
                       THEN ReadPath(Configs[c].PathPrefix) ELSE <<>>,
      Labels       |-> Merge(StripReserved(labels), Configs[c].Labels),
      cfgSeen      |-> c ]

\* promclient.NewMultiAPI(apiClients, antiAffinity, metricFunc, 1), wrapped in
\* IgnoreErrorAPI when s.Cfg.IgnoreError
RequiredCount == 1
ComposedClientCountZero(clients, c) ==
    [ kind         |-> IF Configs[c].IgnoreError THEN "IgnoreErrorAPI" ELSE "MultiAPI",
      apis         |-> clients,
      antiAffinity |-> Configs[c].AntiAffinity,
      requiredCount |-> 0,
      cfgSeen      |-> c ]
ComposedClientNeverIgnore(clients, c) ==
    [ kind         |-> "MultiAPI",
      apis         |-> clients,
      antiAffinity |-> Configs[c].AntiAffinity,
      requiredCount |-> RequiredCount,
      cfgSeen      |-> c ]
ComposedClientAlwaysIgnore(clients, c) ==
    [ kind         |-> "IgnoreErrorAPI",
      apis         |-> clients,
      antiAffinity |-> Configs[c].AntiAffinity,
      requiredCount |-> RequiredCount,
      cfgSeen      |-> c ]
ComposedClient(clients, c) ==
    [ kind         |-> IF Configs[c].IgnoreError THEN "IgnoreErrorAPI" ELSE "MultiAPI",
      apis         |-> clients,
      antiAffinity |-> Configs[c].AntiAffinity,
      requiredCount |-> RequiredCount,
      cfgSeen      |-> c ]

\* ------------------------------------------- merge layer (promclient package)
\* What one leaf returns when its call succeeds: its series, carrying the
\* labels its AddLabelClient injects.
LeafData(api) == { << api.Address, api.Labels >> }

\* A call on the MultiAPI when the leaves in failed fail: it tolerates up to
\* tolerance leaf failures and then answers with the union of the other
\* leaves' data; gathered is what was obtained either way.
MultiAPICall(apis, tolerance, failed) ==
    LET got == UNION { LeafData(apis[i]) : i \in (1..Len(apis)) \ failed }
    IN [ ok       |-> Cardinality(failed) <= tolerance,
         data     |-> IF Cardinality(failed) <= tolerance THEN got ELSE {},
         gathered |-> got ]

\* IgnoreErrorAPI around it: a partial failure becomes a success with the data
\* obtained; a call in which every leaf failed stays a failure.
IgnoreErrorCall(inner, n, failed) ==
    IF inner.ok \/ Cardinality(failed) = n
    THEN inner
    ELSE [ ok |-> TRUE, data |-> inner.gathered, gathered |-> inner.gathered ]

\* newState.apiClient.X(...) for a composed client
APICall(client, failed) ==
    LET inner == MultiAPICall(client.apis, client.requiredCount, failed)
    IN IF client.kind = "IgnoreErrorAPI"
       THEN IgnoreErrorCall(inner, Len(client.apis), failed)
       ELSE inner

\* &ServerGroupState{Targets: targets, apiClient: ...}
NewState(tl, clients, c) == [ Targets |-> tl, apiClient |-> ComposedClient(clients, c) ]

\* s.state.Store(newState): a fresh object, the pointer swapped to it
StoreInPlace(h, newState) ==
    IF h = <<>> THEN << newState >> ELSE [h EXCEPT ![Len(h)] = newState]
Store(h, newState) == Append(h, newState)

\* State(): the pointer held by s.state, nil (0) when nothing was stored
NilState == 0
StateStale == IF state <= 1 THEN NilState ELSE state - 1
State == IF state = 0 THEN NilState ELSE state

\* ------------------------------------------------- discovery manager (feed)

\* A discovery provider hands the manager new groups: fresh label maps.
ProviderUpdate(u) ==
    /\ Running /\ senderAlive /\ sdCfg # 0
    /\ UNCHANGED querierVars
    /\ envOps < MaxEnvOps
    /\ envOps' = envOps + 1
    /\ present' = u
    /\ feedLabels' = OrigLabels
    /\ shared' = FALSE
    /\ UNCHANGED << applyVars, ctxDone, senderAlive, syncPc, tgm, idx, tgmLabels,
                    targets, apiClients, round, rounds, stateVars, queryVars, crashed >>

\* The manager, started with s.ctx, notices the cancellation and stops sending.
ManagerStop ==
    /\ Running /\ ctxDone /\ senderAlive
    /\ UNCHANGED querierVars
    /\ senderAlive' = FALSE
    /\ UNCHANGED << applyVars, ctxDone, feedVars, syncLocals, stateVars, queryVars, envOps,
                    crashed >>

\* Cancel(): lines 88-90
Cancel ==
    /\ Running
    /\ UNCHANGED querierVars
    /\ envOps < MaxEnvOps
    /\ envOps' = envOps + 1
    /\ ctxDone' = TRUE
    /\ UNCHANGED << applyVars, senderAlive, feedVars, syncLocals, stateVars, queryVars, crashed >>

\* ------------------------------------------------------------------- Sync

\* for targetGroupMap := range syncCh, and the two make() calls: lines 95-97
SyncRecvOverlapping ==
    /\ Running /\ syncPc \in {"recv", "target", "store"}
    /\ UNCHANGED querierVars
    /\ senderAlive /\ sdCfg # 0
    /\ envOps < MaxEnvOps
    /\ envOps' = envOps + 1
    /\ tgm' = present
    /\ tgmLabels' = feedLabels
    /\ shared' = TRUE
    /\ idx' = 1
    /\ targets' = <<>>
    /\ apiClients' = <<>>
    /\ round' = [cfgAtStart |-> Cfg, clientAtStart |-> Client, afterCancel |-> ctxDone,
                 update |-> present, relabeled |-> <<>>, seq |-> rounds + 1]
    /\ rounds' = rounds + 1
    /\ syncPc' = IF present = <<>> THEN "store" ELSE "target"
    /\ UNCHANGED << applyVars, ctxDone, senderAlive, feedVars, stateVars, queryVars, crashed >>
SyncRecv ==
    /\ Running /\ syncPc = "recv"
    /\ UNCHANGED querierVars
    /\ senderAlive /\ sdCfg # 0
    /\ envOps < MaxEnvOps
    /\ envOps' = envOps + 1
    /\ tgm' = present
    /\ tgmLabels' = feedLabels
    /\ shared' = TRUE
    /\ idx' = 1
    /\ targets' = <<>>
    /\ apiClients' = <<>>
    /\ round' = [cfgAtStart |-> Cfg, clientAtStart |-> Client, afterCancel |-> ctxDone,
                 update |-> present, relabeled |-> <<>>, seq |-> rounds + 1]
    /\ rounds' = rounds + 1
    /\ syncPc' = IF present = <<>> THEN "store" ELSE "target"
    /\ UNCHANGED << applyVars, ctxDone, senderAlive, feedVars, stateVars, queryVars, crashed >>

\* One pass of the innermost loop body: lines 101-149
SyncTarget ==
    /\ Running /\ syncPc = "target"
    /\ UNCHANGED querierVars
    /\ LET t      == tgm[idx]
           labels == tgmLabels[t]
           res    == relabel_Process(t, labels, Configs[Cfg].RelabelConfigs)
           client == TargetClient(Cfg, Client, labels)
           next   == IF idx = Len(tgm) THEN "store" ELSE "target"
           entry  == [t |-> t, res |-> res, labels |-> labels]
       IN
       /\ round' = [round EXCEPT !.relabeled = Append(@, entry)]
       /\ IF ~Survives(res)
          THEN \* continue
               /\ idx' = idx + 1 /\ syncPc' = next
               /\ UNCHANGED << targets, apiClients, tgmLabels, feedLabels, crashed >>
          ELSE /\ targets' = AppendTarget(targets, Host(labels))
               /\ IF NewClientFails(client.Address)
                  THEN \* panic(err)
                       /\ crashed' = "panic: NewClient"
                       /\ UNCHANGED << idx, syncPc, apiClients, tgmLabels, feedLabels >>
                  ELSE /\ tgmLabels' = [tgmLabels EXCEPT ![t] = StripReserved(labels)]
                       /\ feedLabels' = IF shared
                                        THEN [feedLabels EXCEPT ![t] = StripReserved(labels)]
                                        ELSE feedLabels
                       /\ apiClients' = Append(apiClients, client)
                       /\ idx' = idx + 1 /\ syncPc' = next
                       /\ UNCHANGED crashed
    /\ UNCHANGED << applyVars, ctxDone, senderAlive, present, tgm, shared,
                    rounds, stateVars, queryVars, envOps >>

\* Composition and publication: lines 153-166
SyncStore ==
    /\ Running /\ syncPc = "store"
    /\ UNCHANGED querierVars
    /\ LET newState == NewState(targets, apiClients, Cfg) IN
       /\ heap' = Store(heap, newState)
       /\ state' = Len(heap')
       /\ published' = Append(published, [snap |-> newState, round |-> round])
    /\ syncPc' = "ready"
    /\ UNCHANGED << applyVars, ctxDone, senderAlive, feedVars, tgm, idx, tgmLabels, shared,
                    targets, apiClients, round, rounds, loaded, Ready, queryVars, envOps, crashed >>

\* if !s.loaded { s.loaded = true; close(s.Ready) }: lines 168-171
SyncReadyNoGuard ==
    /\ Running /\ syncPc = "ready"
    /\ UNCHANGED querierVars
    /\ loaded' = TRUE
    /\ IF Ready = "closed"
       THEN crashed' = "panic: close of closed channel" /\ UNCHANGED Ready
       ELSE Ready' = "closed" /\ UNCHANGED crashed
    /\ syncPc' = "recv"
    \* the loop body's locals go out of scope
    /\ tgm' = <<>> /\ idx' = 1 /\ tgmLabels' = OrigLabels /\ shared' = FALSE
    /\ targets' = <<>> /\ apiClients' = <<>> /\ round' = NoRound
    /\ UNCHANGED << applyVars, ctxDone, senderAlive, feedVars,
                    rounds, heap, state, published, queryVars, envOps >>
SyncReady ==
    /\ Running /\ syncPc = "ready"
    /\ UNCHANGED querierVars
    /\ IF ~loaded
       THEN /\ loaded' = TRUE
            /\ IF Ready = "closed"
               THEN crashed' = "panic: close of closed channel" /\ UNCHANGED Ready
               ELSE Ready' = "closed" /\ UNCHANGED crashed
       ELSE UNCHANGED << loaded, Ready, crashed >>
    /\ syncPc' = "recv"
    \* the loop body's locals go out of scope
    /\ tgm' = <<>> /\ idx' = 1 /\ tgmLabels' = OrigLabels /\ shared' = FALSE
    /\ targets' = <<>> /\ apiClients' = <<>> /\ round' = NoRound
    /\ UNCHANGED << applyVars, ctxDone, senderAlive, feedVars,
                    rounds, heap, state, published, queryVars, envOps >>

\* ------------------------------------------------------------ ApplyConfig

\* s.Cfg = cfg: line 177
ApplyStart(c) ==
    /\ Running /\ applyPc = "idle"
    /\ UNCHANGED querierVars
    /\ envOps < MaxEnvOps
    /\ envOps' = envOps + 1
    /\ applyArg' = c
    /\ applyRet' = [err |-> FALSE, pre |-> << Cfg, Client, sdCfg >>]
    /\ Cfg' = c
    /\ applyPc' = "tls"
    /\ UNCHANGED << Client, sdCfg, ctxDone, senderAlive, feedVars, syncLocals, stateVars,
                    queryVars, crashed >>

\* NewTLSConfig, the round tripper chain and s.Client: lines 180-211
ApplyTLS ==
    /\ Running /\ applyPc = "tls"
    /\ UNCHANGED querierVars
    /\ \E readable \in BOOLEAN :
          IF NewTLSConfigFails(applyArg, readable)
          THEN \* return errors.Wrap(err, ...)
               /\ applyRet' = [applyRet EXCEPT !.err = TRUE]
               /\ applyPc' = "idle"
               /\ UNCHANGED Client
          ELSE /\ Client' = applyArg
               /\ applyPc' = "sd"
               /\ UNCHANGED applyRet
    /\ UNCHANGED << Cfg, sdCfg, applyArg, ctxDone, senderAlive, feedVars,
                    syncLocals, stateVars, queryVars, envOps, crashed >>

\* s.targetManager.ApplyConfig(...) and the return: lines 213-216
ApplySD ==
    /\ Running /\ applyPc = "sd"
    /\ UNCHANGED querierVars
    /\ applyPc' = "idle"
    /\ IF ~Configs[applyArg].HostsOk
       THEN /\ applyRet' = [applyRet EXCEPT !.err = TRUE]
            /\ UNCHANGED << sdCfg, present, feedLabels, shared >>
       ELSE \* the old providers are cancelled, the new ones have sent nothing yet
            /\ sdCfg' = applyArg
            /\ present' = <<>>
            /\ feedLabels' = OrigLabels
            /\ shared' = FALSE
            /\ applyRet' = NoError
    /\ UNCHANGED << Cfg, Client, applyArg, ctxDone, senderAlive,
                    syncPc, tgm, idx, tgmLabels, targets, apiClients, round, rounds,
                    stateVars, queryVars, envOps, crashed >>

\* ---------------------------------------------------------------- queries

\* GetValue / Query / QueryRange / LabelValues / Series: s.State().apiClient.X(...)
\* lines 219-251.  State() is one atomic load; a nil result is dereferenced.
QueryStart(q) ==
    /\ Running /\ qPc[q] = "idle"
    /\ UNCHANGED querierVars
    /\ envOps < MaxEnvOps
    /\ envOps' = envOps + 1
    /\ IF State = NilState
       THEN /\ crashed' = "panic: nil pointer dereference"
            /\ UNCHANGED << qPc, qRef, qSeen >>
       ELSE /\ qPc' = [qPc EXCEPT ![q] = "inflight"]
            /\ qRef' = [qRef EXCEPT ![q] = State]
            /\ qSeen' = [qSeen EXCEPT ![q] = heap[State]]
            /\ UNCHANGED crashed
    /\ UNCHANGED << applyVars, ctxDone, senderAlive, feedVars, syncLocals, stateVars, lastCall >>

\* the apiClient call on the loaded snapshot returns
QueryReturn(q) ==
    /\ Running /\ qPc[q] = "inflight"
    /\ UNCHANGED querierVars
    /\ \E failed \in SUBSET (1..Len(heap[qRef[q]].apiClient.apis)) :
          lastCall' = [ made   |-> TRUE,
                        client |-> heap[qRef[q]].apiClient,
                        failed |-> failed,
                        merge  |-> MultiAPICall(heap[qRef[q]].apiClient.apis,
                                                heap[qRef[q]].apiClient.requiredCount, failed),
                        result |-> APICall(heap[qRef[q]].apiClient, failed) ]
    /\ qPc' = [qPc EXCEPT ![q] = "idle"]
    /\ qRef' = [qRef EXCEPT ![q] = 0]
    /\ qSeen' = [qSeen EXCEPT ![q] = <<>>]
    /\ UNCHANGED << applyVars, ctxDone, senderAlive, feedVars, syncLocals, stateVars,
                    envOps, crashed >>

Next ==
    \/ \E u \in UpdateChoices : ProviderUpdate(u)
    \/ ManagerStop
    \/ Cancel
    \/ SyncRecv
    \/ SyncTarget
    \/ SyncStore
    \/ SyncReady
    \/ \E c \in CfgIds : ApplyStart(c)
    \/ ApplyTLS
    \/ ApplySD
    \/ \E q \in Queriers : QueryStart(q)
    \/ \E q \in Queriers : QueryReturn(q)

Spec == Init /\ [][Next]_vars

\* ------------------------------------------------- ProxyQuerier: its calls

\* Select, lines 29-68: the branch on selectParams, up to the call on h.Client
SelectQuerierWindow(selectParams, matchers) ==
    /\ selPc = "idle"
    /\ selArgs' = [op |-> "Select", selectParams |-> selectParams,
                   matchers |-> matchers, name |-> ""]
    /\ clientRet' = NoOutcome
    /\ selRet' = NoReturn
    /\ clientCalls' = << [op |-> IF selectParams = Nil THEN "Series" ELSE "GetValue",
                          matchers |-> IF selectParams = Nil
                                       THEN << MatcherToString(matchers).str >>
                                       ELSE matchers,
                          start |-> hStart, end |-> hEnd] >>
    /\ selPc' = IF selectParams = Nil THEN "series" ELSE "getvalue"
    /\ UNCHANGED << groupVars, hStart, hEnd, lnRet >>
Select(selectParams, matchers) ==
    /\ selPc = "idle"
    /\ selArgs' = [op |-> "Select", selectParams |-> selectParams,
                   matchers |-> matchers, name |-> ""]
    /\ clientRet' = NoOutcome
    /\ IF selectParams = Nil
       THEN LET conv == MatcherToString(matchers) IN
            IF conv.err # Nil
            THEN /\ selRet' = [op |-> "Select", set |-> Nil, warnings |-> Nil, err |-> conv.err]
                 /\ clientCalls' = <<>>
                 /\ selPc' = "idle"
            ELSE /\ clientCalls' = << [op |-> "Series", matchers |-> << conv.str >>,
                                       start |-> hStart, end |-> hEnd] >>
                 /\ selPc' = "series"
                 /\ selRet' = NoReturn
       ELSE /\ clientCalls' = << [op |-> "GetValue", matchers |-> matchers,
                                  start |-> TimestampTime(selectParams[1].Start),
                                  end |-> TimestampTime(selectParams[1].End)] >>
            /\ selPc' = "getvalue"
            /\ selRet' = NoReturn
    /\ UNCHANGED << groupVars, hStart, hEnd, lnRet >>

\* lines 69-80, the same in both modes: the error check, then the series set
SelectFinish(result, err) ==
    IF err # Nil
    THEN [op |-> "Select", set |-> Nil, warnings |-> Nil, err |-> Cause(err)]
    ELSE [op |-> "Select", set |-> Some(NewSeriesSet(SeriesOf(IteratorsForValue(result)))),
          warnings |-> Nil, err |-> Nil]

\* Select, lines 53-65 and 69-80: h.Client.Series returns
SelectSeriesReturn(out) ==
    /\ selPc = "series"
    /\ clientRet' = [op |-> "Series", labelsets |-> out.labelsets, err |-> out.err]
    /\ selRet' = SelectFinish(LabelsetsToVector(out.labelsets), out.err)
    /\ selPc' = "idle"
    /\ UNCHANGED << groupVars, hStart, hEnd, selArgs, clientCalls, lnRet >>

\* Select, lines 67-80: h.Client.GetValue returns
SelectGetValueReturn(out) ==
    /\ selPc = "getvalue"
    /\ clientRet' = [op |-> "GetValue", value |-> out.value, err |-> out.err]
    /\ selRet' = SelectFinish(out.value, out.err)
    /\ selPc' = "idle"
    /\ UNCHANGED << groupVars, hStart, hEnd, selArgs, clientCalls, lnRet >>

\* LabelValues, lines 84-93
LabelValues(name) ==
    /\ selPc = "idle"
    /\ selArgs' = [op |-> "LabelValues", selectParams |-> Nil, matchers |-> <<>>, name |-> name]
    /\ clientCalls' = << [op |-> "LabelValues", matchers |-> <<>>, start |-> name, end |-> name] >>
    /\ clientRet' = NoOutcome
    /\ selRet' = NoReturn
    /\ selPc' = "labelvalues"
    /\ UNCHANGED << groupVars, hStart, hEnd, lnRet >>

\* LabelValues, lines 93-103: h.Client.LabelValues returns
LabelValuesReturn(out) ==
    /\ selPc = "labelvalues"
    /\ clientRet' = [op |-> "LabelValues", values |-> out.values, err |-> out.err]
    /\ selRet' = IF out.err # Nil
                 THEN [op |-> "LabelValues", set |-> Nil, warnings |-> Nil, err |-> Cause(out.err)]
                 ELSE [op |-> "LabelValues", set |-> Some(out.values), warnings |-> Nil, err |-> Nil]
    /\ selPc' = "idle"
    /\ UNCHANGED << groupVars, hStart, hEnd, selArgs, clientCalls, lnRet >>

\* LabelNames, lines 107-109; callsBefore and callsAfter are the calls made on
\* h.Client when it was entered and when it returned
LabelNamesEmptyList ==
    /\ UNCHANGED << groupVars, hStart, hEnd, selPc, selArgs, clientCalls, clientRet, selRet >>
    /\ lnRet' = [op |-> "LabelNames", names |-> Some(<<>>), err |-> Nil,
                 callsBefore |-> clientCalls, callsAfter |-> clientCalls', at |-> selPc]
LabelNames ==
    /\ UNCHANGED << groupVars, hStart, hEnd, selPc, selArgs, clientCalls, clientRet, selRet >>
    /\ lnRet' = [op |-> "LabelNames", names |-> Nil, err |-> << "Not implemented yet" >>,
                 callsBefore |-> clientCalls, callsAfter |-> clientCalls', at |-> selPc]

QuerierInit == ServerGroupInit /\ \E w \in Windows : ProxyQuerierInit(w)

QuerierNext ==
    \/ \E sp \in ParamChoices, ms \in MatcherChoices : Select(sp, ms)
    \/ \E out \in SeriesOutcomes : SelectSeriesReturn(out)
    \/ \E out \in GetValueOutcomes : SelectGetValueReturn(out)
    \/ \E name \in { "job" } : LabelValues(name)
    \/ \E out \in LabelValuesOutcomes : LabelValuesReturn(out)
    \/ LabelNames

QuerierSpec == QuerierInit /\ [][QuerierNext]_vars

\* ================================================================ claims

Snapshots == { published[i] : i \in 1..Len(published) }
IsSurvivor(e) == e.res # NilTarget
Survivors(p) == SelectSeq(p.round.relabeled, IsSurvivor)
SeqRange(sq) == { sq[i] : i \in 1..Len(sq) }

\* C1: in every published snapshot, the targets relabeling dropped (nil) have
\* no entry in Targets and no client, and every target relabeling kept has one
\* entry in each: both lists have exactly as many entries as relabeling kept
\* targets, every client belongs to a kept target, and every target of the
\* update went through relabeling.
C1_DroppedTargetsExcluded ==
    \A i \in 1..Len(published) :
        LET p    == published[i]
            kept == Survivors(p)
        IN /\ Len(p.round.relabeled) = Len(p.round.update)
           /\ Len(p.snap.Targets) = Len(kept)
           /\ Len(p.snap.apiClient.apis) = Len(kept)
           /\ \A j \in 1..Len(p.snap.apiClient.apis) :
                 /\ j <= Len(kept)
                 /\ p.snap.apiClient.apis[j].Address[2] = Host(kept[j].labels)

C1_Witness ==
    \E p \in Snapshots :
        /\ \E e \in SeqRange(p.round.relabeled) : e.res = NilTarget
        /\ \E e \in SeqRange(p.round.relabeled) : e.res # NilTarget

\* C2 (as claimed): the Targets list of a published snapshot is the
\* deduplicated set of the kept targets' addresses: no address twice, and one
\* client per distinct address.
C2_TargetsDeduplicated ==
    \A p \in Snapshots :
        /\ SeqRange(p.snap.Targets) = { Host(e.labels) : e \in SeqRange(Survivors(p)) }
        /\ Len(p.snap.Targets) = Cardinality(SeqRange(p.snap.Targets))
        /\ Len(p.snap.apiClient.apis) = Cardinality(SeqRange(p.snap.Targets))

\* C2 (amended): the Targets list of a published snapshot is the list of the
\* kept targets' addresses in discovery order, one entry and one client per
\* kept target, an address shared by two kept targets appearing twice.
C2_TargetsAreSurvivorsInOrder ==
    \A i \in 1..Len(published) :
        LET p    == published[i]
            kept == Survivors(p)
        IN /\ Len(p.snap.Targets) = Len(kept)
           /\ \A j \in 1..Len(kept) : p.snap.Targets[j] = Host(kept[j].labels)
           /\ Len(p.snap.apiClient.apis) = Len(p.snap.Targets)

C2_Witness ==
    \E p \in Snapshots :
        \E i, j \in 1..Len(p.snap.Targets) :
            i # j /\ p.snap.Targets[i] = p.snap.Targets[j] /\ p.snap.Targets[i] # ""

\* C3: a stored ServerGroupState is never modified: every snapshot ever given
\* to Store is still, unchanged, at its address, and a query in flight still
\* sees the Targets and the client it loaded, whatever was published since.
C3_SnapshotImmutable ==
    /\ \A i \in 1..Len(published) :
          i <= Len(heap) /\ heap[i] = published[i].snap
    /\ \A q \in Queriers :
          qPc[q] = "inflight" =>
              /\ qRef[q] \in 1..Len(heap)
              /\ heap[qRef[q]] = qSeen[q]

C3_Witness ==
    \E q \in Queriers :
        /\ qPc[q] = "inflight"
        /\ state # qRef[q]
        /\ heap[state] # qSeen[q]

\* C4 (as claimed): when ApplyConfig has returned an error, Cfg, Client and
\* the discovery subscription are what they were before the call.
C4_FailedApplyConfigChangesNothing ==
    (applyPc = "idle" /\ applyRet.err) => << Cfg, Client, sdCfg >> = applyRet.pre

\* C5 (as claimed): every published snapshot is built from the one config and
\* the one transport that were active when its round started, and from the
\* targets of one update.
C5_SnapshotFromOneConfig ==
    \A p \in Snapshots :
        /\ p.snap.apiClient.cfgSeen = p.round.cfgAtStart
        /\ \A j \in 1..Len(p.snap.apiClient.apis) :
              /\ p.snap.apiClient.apis[j].cfgSeen = p.round.cfgAtStart
              /\ p.snap.apiClient.apis[j].RoundTripper = p.round.clientAtStart
        /\ p.round.clientAtStart = p.round.cfgAtStart
        /\ \A e \in SeqRange(p.round.relabeled) : e.t \in SeqRange(p.round.update)

\* C6: Ready is closed exactly once, by the first round that publishes: it is
\* open while nothing is published, closed from the end of the first
\* publishing round on, and no later round closes it again (a second close
\* would panic).
C6_ReadyFiresOnce ==
    /\ Ready = "closed" => Len(published) >= 1
    /\ (Len(published) >= 1 /\ ~(Len(published) = 1 /\ syncPc = "ready")) => Ready = "closed"
    /\ loaded <=> Ready = "closed"
    /\ crashed # "panic: close of closed channel"

C6_Witness ==
    /\ Len(published) = 2
    /\ published[1].snap.Targets = <<>>
    /\ syncPc = "recv"
    /\ Ready = "closed"

\* C7: State() is nil exactly while nothing has been published, it is the most
\* recently published snapshot otherwise, and it is not nil once Ready is
\* closed.
C7_StateIsLatestSnapshot ==
    /\ State = NilState <=> published = <<>>
    /\ published # <<>> =>
          /\ State \in 1..Len(heap)
          /\ heap[State] = published[Len(published)].snap
    /\ Ready = "closed" => State # NilState

C7_Witness ==
    /\ Len(published) = 2
    /\ published[1].snap # published[2].snap
    /\ Ready = "closed"

\* C8 (as claimed): a query issued before the first snapshot is published
\* fails with a returned error and never terminates the process.
C8_QueryBeforeReadyReturnsError ==
    crashed # "panic: nil pointer dereference"

\* C9 (as claimed): a target whose client cannot be constructed does not abort
\* the round: Sync goes on and the process keeps running.
C9_BuildFailureDoesNotAbortRound ==
    crashed # "panic: NewClient"

\* C10 (as claimed): after Cancel no snapshot is published for a discovery
\* update that arrived after the cancellation.
C10_NoPublishAfterCancel ==
    \A p \in Snapshots : ~p.round.afterCancel

\* C11 (as claimed): in every published snapshot no label attached by a
\* target's AddLabelClient has a name with the reserved prefix.
C11_NoReservedLabelInjected ==
    \A p \in Snapshots :
        \A j \in 1..Len(p.snap.apiClient.apis) :
            \A n \in DOMAIN p.snap.apiClient.apis[j].Labels : ~HasReservedPrefix(n)

\* C11 (amended): no reserved label of the target itself is attached: the
\* labels attached are the target's non-reserved labels and the static labels
\* of the config, the static ones winning, so a reserved name is attached only
\* when the static label set holds it.
C11_OnlyStaticReservedLabels ==
    \A i \in 1..Len(published) :
        LET p    == published[i]
            kept == Survivors(p)
        IN \A j \in 1..Len(p.snap.apiClient.apis) :
            LET injected == p.snap.apiClient.apis[j].Labels
                static   == Configs[p.snap.apiClient.apis[j].cfgSeen].Labels
                own      == kept[j].labels
            IN /\ \A n \in DOMAIN injected :
                     IF n \in DOMAIN static
                     THEN injected[n] = static[n]
                     ELSE ~HasReservedPrefix(n) /\ n \in DOMAIN own /\ injected[n] = own[n]
               /\ DOMAIN static \subseteq DOMAIN injected
               /\ \A n \in DOMAIN own : ~HasReservedPrefix(n) => n \in DOMAIN injected

C11_Witness ==
    \E p \in Snapshots :
        \E j \in 1..Len(p.snap.apiClient.apis) :
            /\ MetaLabel \in DOMAIN Survivors(p)[j].labels
            /\ AddressLabel \in DOMAIN Survivors(p)[j].labels
            /\ GroupLabel \in DOMAIN p.snap.apiClient.apis[j].Labels
            /\ JobLabel \in DOMAIN p.snap.apiClient.apis[j].Labels

\* C12: a Select call makes exactly one call on its client: Series, with the
\* matcher string and the querier's own window, when selectParams is nil, and
\* GetValue, with the request's start and end and its matchers, otherwise;
\* it never makes the other call.
C12_SelectChoosesOneBackendCall ==
    selArgs.op = "Select" =>
        /\ Len(clientCalls) = 1
        /\ IF selArgs.selectParams = Nil
           THEN /\ clientCalls[1].op = "Series"
                /\ clientCalls[1].matchers = << MatcherToString(selArgs.matchers).str >>
                /\ clientCalls[1].start = hStart
                /\ clientCalls[1].end = hEnd
           ELSE /\ clientCalls[1].op = "GetValue"
                /\ clientCalls[1].matchers = selArgs.matchers
                /\ clientCalls[1].start = TimestampTime(selArgs.selectParams[1].Start)
                /\ clientCalls[1].end = TimestampTime(selArgs.selectParams[1].End)
        /\ clientRet.op \in { "none", clientCalls[1].op }

C12_Witness ==
    /\ selArgs.op = "Select"
    /\ selArgs.selectParams # Nil
    /\ selRet.op = "Select"
    /\ selRet.err = Nil
    /\ clientCalls[1].op = "GetValue"
    /\ clientCalls[1].start = [sec |-> 1, nsec |-> 500000000]
    /\ clientCalls[1].start # hStart

\* C13: a Select without selectParams returns the label sets the Series call
\* returned, one series per label set, in the same order, each with the label
\* set as its identity and no points: none added, lost or duplicated; and
\* when Series returns an error Select returns that error's cause and no
\* series set.
C13_MetadataSelectRoundTrip ==
    (selRet.op = "Select" /\ selArgs.selectParams = Nil) =>
        /\ clientRet.op = "Series"
        /\ IF clientRet.err # Nil
           THEN selRet.set = Nil /\ selRet.err = Cause(clientRet.err)
           ELSE /\ selRet.err = Nil
                /\ selRet.set # Nil
                /\ Len(selRet.set[1].series) = Len(clientRet.labelsets)
                /\ \A j \in 1..Len(clientRet.labelsets) :
                      /\ selRet.set[1].series[j].iterator.labels = clientRet.labelsets[j]
                      /\ selRet.set[1].series[j].iterator.points = <<>>

C13_Witness ==
    /\ selRet.op = "Select"
    /\ selArgs.selectParams = Nil
    /\ selRet.err = Nil
    /\ clientRet.labelsets = << UpY, UpX >>
    /\ Len(selRet.set[1].series) = 2

CallLeaves == Len(lastCall.client.apis)
CallFailures == Cardinality(lastCall.failed)
CallSucceededData ==
    UNION { LeafData(lastCall.client.apis[i]) : i \in (1..CallLeaves) \ lastCall.failed }
SuppressionEnabled == Configs[lastCall.client.cfgSeen].IgnoreError
AllButOneFailed == lastCall.made /\ CallLeaves >= 2 /\ CallFailures = CallLeaves - 1

WrapperIffFlag ==
    \A i \in 1..Len(published) :
        LET c == published[i].snap.apiClient
        IN /\ c.kind \in { "IgnoreErrorAPI", "MultiAPI" }
           /\ c.kind = "IgnoreErrorAPI" <=> Configs[c.cfgSeen].IgnoreError

C18_RoundsSerializedInOrder ==
    /\ \A i \in 1..Len(published) :
          /\ published[i].round.seq = i
          /\ Len(published[i].round.relabeled) = Len(published[i].round.update)
          /\ \A k \in 1..Len(published[i].round.relabeled) :
                published[i].round.relabeled[k].t = published[i].round.update[k]
    /\ (Running /\ syncPc = "recv") => Len(published) = rounds
    /\ (Running /\ syncPc \in {"target", "store"}) => Len(published) = rounds - 1
    /\ state = Len(published)

C18_Witness ==
    /\ Len(published) = 2
    /\ published[1].round.update # published[2].round.update
    /\ published[2].round.update # <<>>
    /\ state = 2

\* C19 (as claimed): Sync leaves the label sets held by the discovery feed as
\* discovery produced them.
C19_FeedLabelsUntouched ==
    feedLabels = OrigLabels

\* C20: in every published snapshot Targets and the leaf clients given to
\* NewMultiAPI have the same length, and Targets[i] is the host of leaf
\* client i, so targets[i] in the metrics callback exists and names leaf i.
C20_TargetsIndexLeafClients ==
    \A k \in 1..Len(published) :
        LET p == published[k]
        IN /\ Len(p.snap.Targets) = Len(p.snap.apiClient.apis)
           /\ \A i \in 1..Len(p.snap.apiClient.apis) :
                 /\ i \in DOMAIN p.snap.Targets
                 /\ p.snap.Targets[i] = p.snap.apiClient.apis[i].Address[2]

C20_Witness ==
    \E p \in Snapshots :
        /\ Len(p.snap.apiClient.apis) >= 2
        /\ p.snap.Targets[1] # p.snap.Targets[2]

====
